---- MODULE Spec2Model ----
(***************************************************************************)
(* A model of WordPress Pixel Police: the capture / diff / pairing         *)
(* pipeline of src/src/screenshot.ts (ScreenshotManager), src/src/diff.ts  *)
(* (compareScreenshots, generateDiffComparisons, main) and                 *)
(* src/src/types.ts.                                                       *)
(*                                                                         *)
(* Strings are sequences of one-character strings, so that                 *)
(* sanitizeFilename, the template literals and path.join are computed      *)
(* character by character.  Paths are kept relative to the project folder  *)
(* (screenshotUrl returns path.relative(projectFolder, p) and              *)
(* generateDiffComparisons joins the project folder back on).              *)
(*                                                                         *)
(* Five specifications share the variables:                                *)
(*   Spec      one run of main(): both capture phases, the gate, the diff  *)
(*   SpecCapture, SpecBanner  screenshotAll with takeScreenshot and        *)
(*             handleCookieBanner taken step by step                       *)
(*   SpecPair  generateDiffComparisons on arbitrary before/after sets      *)
(*   SpecDiff  compareScreenshots on arbitrary pairs of stored images      *)
(***************************************************************************)
EXTENDS Integers, Sequences, FiniteSets, TLC

VARIABLES
    pc,                 \* position of main() / of the function under study
    urls,               \* the descriptor list returned by buildUrlList
    browser,            \* ScreenshotManager.browser is non-null
    openContexts,       \* browsing contexts created and not yet closed
    phase,              \* phase argument of the running screenshotAll
    idx,                \* loop index i of screenshotAll (0-based, as in the code)
    results,            \* the results array of the running screenshotAll
    cap,                \* position inside screenshotUrl
    fs,                 \* the project folder: path -> file content
    beforeScreenshots,  \* config.beforeScreenshots
    afterScreenshots,   \* config.afterScreenshots
    comparisons,        \* the comparisons array of generateDiffComparisons
    configComparisons,  \* config.comparisons: <<>> while undefined, else <<array>>
    endTime,            \* config.endTime is set
    di,                 \* position of the for-of loop of generateDiffComparisons
    log,                \* what the run recorded about captures and comparisons
    cmp,                \* <<locals of the last compareScreenshots call>>, or <<>>
    cookieConfig,       \* ScreenshotManager.cookieConfig
    step,               \* position inside the running takeScreenshot
    page,               \* the Playwright page of the running screenshotUrl
    banner,             \* locals of the running handleCookieBanner
    site,               \* what the REST API of the WordPress site answers
    discovery,          \* main's apiAccessible and selectedPostTypes
    scroll,             \* the document and the locals of scrollToLoadAllContent
    filename            \* argument and result of the sanitizeFilename call

vars == <<pc, urls, browser, openContexts, phase, idx, results, cap, fs,
          beforeScreenshots, afterScreenshots, comparisons, configComparisons,
          endTime, di, log, cmp, cookieConfig, step, page, banner,
          site, discovery, scroll, filename>>

\* the variables of the specifications of discovery, of the lazy-content
\* scroll and of sanitizeFilename
unitVars == <<site, discovery, scroll, filename>>

\* the variables of takeScreenshot and handleCookieBanner taken step by step
captureVars == <<cookieConfig, step, page, banner>>

Undefined == "undefined"

\* the values of unitVars while the function they belong to is not running
NoSite == [root |-> FALSE, types |-> [ok |-> FALSE, list |-> <<>>], posts |-> <<>>]
NoDiscovery == [apiAccessible |-> FALSE, selectedPostTypes |-> <<>>]
NoScroll ==
    [scrollHeight |-> 0, viewportHeight |-> 0, currentPosition |-> 0, height |-> 0]
NoFilename == [name |-> <<>>, result |-> <<>>]

UnitIdle ==
    /\ site = NoSite
    /\ discovery = NoDiscovery
    /\ scroll = NoScroll
    /\ filename = NoFilename

----------------------------------------------------------------------------
(* Bounds of the model *)

\* largest number of pixels (width * height) of a stored image in SpecDiff
MaxPixels == 4
\* largest number of discovered posts after the homepage descriptor in Spec
MaxPosts == 2
\* largest length of the before-set and of the after-set in SpecPair
MaxSet == 2
\* largest length of the descriptor list in SpecCapture
MaxCaptureList == 2
\* largest number of posts a post listing of the REST API returns in SpecDiscover
MaxListed == 2
\* largest initial document height in SpecScroll, in blocks of LazyBlock pixels
MaxBlocks == 6
\* largest number of blocks lazy loading adds to a document in SpecScroll
MaxLazyBlocks == 2
\* the height of one block of content in SpecScroll, in pixels
LazyBlock == 500
\* largest length of what precedes and of what follows the run of letters of
\* a name in SpecSanitize
MaxAffix == 2

----------------------------------------------------------------------------
(* Strings *)

Range(s) == {s[k] : k \in 1..Len(s)}

Min(a, b) == IF a < b THEN a ELSE b
Max(a, b) == IF a > b THEN a ELSE b

UpperLetters == <<"A","B","C","D","E","F","G","H","I","J","K","L","M",
                  "N","O","P","Q","R","S","T","U","V","W","X","Y","Z">>
LowerLetters == <<"a","b","c","d","e","f","g","h","i","j","k","l","m",
                  "n","o","p","q","r","s","t","u","v","w","x","y","z">>
Digits == {"0","1","2","3","4","5","6","7","8","9"}

\* String.prototype.toLowerCase on one ASCII character
ToLowerChar(c) ==
    IF \E k \in 1..26 : UpperLetters[k] = c
    THEN LowerLetters[CHOOSE k \in 1..26 : UpperLetters[k] = c]
    ELSE c

\* the character class [a-z0-9-]
IsFilenameChar(c) == c \in Range(LowerLetters) \cup Digits \cup {"-"}

\* .replace(/-+/g, '-')
RECURSIVE CollapseHyphens(_)
CollapseHyphens(s) ==
    IF Len(s) <= 1 THEN s
    ELSE IF s[1] = "-" /\ s[2] = "-" THEN CollapseHyphens(Tail(s))
    ELSE <<s[1]>> \o CollapseHyphens(Tail(s))

\* .replace(/^-|-$/g, ''): one hyphen at the start and one at the end
TrimHyphens(s) ==
    LET a == IF Len(s) > 0 /\ s[1] = "-" THEN Tail(s) ELSE s
    IN  IF Len(a) > 0 /\ a[Len(a)] = "-" THEN SubSeq(a, 1, Len(a) - 1) ELSE a

\* the length limit of sanitizeFilename, .slice(0, 50)
FilenameLimit == 50

\* sanitizeFilename without .replace(/-+/g, '-')
sanitizeFilenameUncollapsed(name) ==
    LET lowered  == [k \in 1..Len(name) |-> ToLowerChar(name[k])]
        replaced == [k \in 1..Len(name) |->
                        IF IsFilenameChar(lowered[k]) THEN lowered[k] ELSE "-"]
        trimmed  == TrimHyphens(replaced)
    IN  SubSeq(trimmed, 1, Min(Len(trimmed), FilenameLimit))

sanitizeFilename(name) ==
    LET lowered  == [k \in 1..Len(name) |-> ToLowerChar(name[k])]
        replaced == [k \in 1..Len(name) |->
                        IF IsFilenameChar(lowered[k]) THEN lowered[k] ELSE "-"]
        trimmed  == TrimHyphens(CollapseHyphens(replaced))
    IN  SubSeq(trimmed, 1, Min(Len(trimmed), FilenameLimit))

\* path.join(a, b) for two non-empty relative segments
PathJoin(a, b) == a \o <<"/">> \o b

StrBefore   == <<"b","e","f","o","r","e">>
StrAfter    == <<"a","f","t","e","r">>
StrDiff     == <<"d","i","f","f">>
StrDesktop  == <<"d","e","s","k","t","o","p">>
StrMobile   == <<"m","o","b","i","l","e">>
StrPng      == <<".","p","n","g">>
StrHomepage == <<"h","o","m","e","p","a","g","e">>

PhaseFolder(ph) == IF ph = "before" THEN StrBefore ELSE StrAfter
ViewportName(vp) == IF vp = "desktop" THEN StrDesktop ELSE StrMobile

----------------------------------------------------------------------------
(* Raster images: width, height, row-major RGBA pixels *)

White    == <<255, 255, 255, 255>>
OffWhite == <<240, 240, 240, 255>>
Black    == <<0, 0, 0, 255>>
Palette  == {White, OffWhite, Black}

\* index of pixel (x, y), 0-based coordinates, in a row-major buffer
PixelIndex(width, x, y) == width * y + x + 1

PixelAt(png, x, y) == png.data[PixelIndex(png.width, x, y)]

NewImage(w, h, d) == [width |-> w, height |-> h, data |-> d]

Dimensions(png) == [width |-> png.width, height |-> png.height]

----------------------------------------------------------------------------
(* The diff engine: padImage, pixelmatch, compareScreenshots *)

\* what a file that is no readable PNG holds (zero bytes, a truncated write)
Corrupt == [width |-> 0, height |-> 0, data |-> <<>>]

\* PNG.sync.read succeeds on the content
IsPng(content) == content.width > 0

\* padImage with the fill colour of a transparent canvas instead of white
padImageUnfilled(png, targetWidth, targetHeight) ==
    IF png.width = targetWidth /\ png.height = targetHeight
    THEN png
    ELSE NewImage(targetWidth, targetHeight,
            [k \in 1..(targetWidth * targetHeight) |->
                LET x == (k - 1) % targetWidth
                    y == (k - 1) \div targetWidth
                IN  IF x < png.width /\ y < png.height
                    THEN PixelAt(png, x, y)
                    ELSE <<0, 0, 0, 0>>])

\* padImage: the same object when the size already matches, else a white
\* canvas of the target size with the original copied to the top-left
padImage(png, targetWidth, targetHeight) ==
    IF png.width = targetWidth /\ png.height = targetHeight
    THEN png
    ELSE NewImage(targetWidth, targetHeight,
            [k \in 1..(targetWidth * targetHeight) |->
                LET x == (k - 1) % targetWidth
                    y == (k - 1) \div targetWidth
                IN  IF x < png.width /\ y < png.height
                    THEN PixelAt(png, x, y)
                    ELSE White])

\* DEFAULT_OPTIONS.threshold = 0.1: pixelmatch counts a pixel when its colour
\* delta exceeds 35215 * threshold^2 = 352.15; for opaque greys the delta is
\* 0.5053 * (v1 - v2)^2.  Both sides are scaled by 10000.
MaxDeltaScaled == 3521500
DeltaWeight == 5053

Luma(p) == p[1]

OverThreshold(p1, p2) ==
    DeltaWeight * (Luma(p1) - Luma(p2)) * (Luma(p1) - Luma(p2)) > MaxDeltaScaled

Positions(width, height) == 1..(width * height)

Neighbours(width, height, k) ==
    LET x == (k - 1) % width
        y == (k - 1) \div width
    IN  {PixelIndex(width, nx, ny) :
            <<nx, ny>> \in {c \in (Max(x - 1, 0)..Min(x + 1, width - 1))
                                \X (Max(y - 1, 0)..Min(y + 1, height - 1)) :
                              c # <<x, y>>}}

\* pixelmatch treats a differing pixel as anti-aliasing only if, in one of
\* the images, it lies on an intensity slope: a darker and a brighter neighbour
OnSlope(data, width, height, k) ==
    /\ \E n \in Neighbours(width, height, k) : Luma(data[n]) < Luma(data[k])
    /\ \E n \in Neighbours(width, height, k) : Luma(data[n]) > Luma(data[k])

Differing(data1, data2, width, height) ==
    {k \in Positions(width, height) : OverThreshold(data1[k], data2[k])}

\* the differing pixels pixelmatch may classify as anti-aliased
AACandidates(data1, data2, width, height) ==
    {k \in Differing(data1, data2, width, height) :
        OnSlope(data1, width, height, k) \/ OnSlope(data2, width, height, k)}

\* DEFAULT_OPTIONS.diffColor, pixelmatch's aaColor, and the alpha = 0.1 blend
\* of an unchanged pixel with white
DiffColor == <<255, 0, 0, 255>>
AAColor   == <<255, 255, 0, 255>>
Dimmed(p) == LET v == (2295 + Luma(p)) \div 10 IN <<v, v, v, 255>>

\* pixelmatch(img1, img2, output, width, height, options): the number of
\* differing pixels that are not anti-aliased, and the output buffer.
\* aa is the set of pixels the library classifies as anti-aliased.
pixelmatch(data1, data2, width, height, aa) ==
    LET differing == Differing(data1, data2, width, height) \ aa
    IN  [count  |-> Cardinality(differing),
         output |-> [k \in Positions(width, height) |->
                        IF k \in differing THEN DiffColor
                        ELSE IF k \in aa THEN AAColor
                        ELSE Dimmed(data1[k])]]

\* dimensionsDiffer with width and height crossed between the two images
dimensionsDifferCrossed(img1, img2) ==
    img1.width # img2.height \/ img1.height # img2.width

dimensionsDiffer(img1, img2) ==
    img1.width # img2.width \/ img1.height # img2.height

\* totalPixels taken from the before image instead of the canvas
totalPixelsOfBefore(before, width, height) == before.width * before.height

totalPixels(before, width, height) == width * height

\* (diffPixels / totalPixels) * 100 as an exact fraction
diffPercentage(diffPixels, total) == [num |-> diffPixels * 100, den |-> total]

\* lines 110-164 of compareScreenshots, once both files are read:
\* before and after are the images as read from storage
CompareImages(before, after, diffPath, aa) ==
    LET width   == Max(before.width, after.width)
        height  == Max(before.height, after.height)
        differ  == dimensionsDiffer(before, after)
        img1    == IF differ THEN padImage(before, width, height) ELSE before
        img2    == IF differ THEN padImage(after, width, height) ELSE after
        pm      == pixelmatch(img1.data, img2.data, width, height, aa)
        total   == totalPixels(before, width, height)
    IN  [before  |-> before,
         after   |-> after,
         img1    |-> img1,
         img2    |-> img2,
         padded1 |-> differ /\ img1 # before,
         padded2 |-> differ /\ img2 # after,
         diff    |-> NewImage(width, height, pm.output),
         result  |-> [diffPixels       |-> pm.count,
                      totalPixels      |-> total,
                      diffPercentage   |-> diffPercentage(pm.count, total),
                      diffPath         |-> diffPath,
                      dimensionsDiffer |-> differ,
                      beforeDimensions |-> Dimensions(img1),
                      afterDimensions  |-> Dimensions(img2)]]

\* the anti-aliasing classifications pixelmatch can make for two stored images
AAChoices(before, after) ==
    LET width  == Max(before.width, after.width)
        height == Max(before.height, after.height)
    IN  SUBSET AACandidates(padImage(before, width, height).data,
                            padImage(after, width, height).data, width, height)

\* fs.existsSync(path)
Exists(files, path) == \E q \in DOMAIN files : q = path

\* does compareScreenshots(beforePath, afterPath, ...) throw on this storage
CompareThrows(files, beforePath, afterPath) ==
    IF ~Exists(files, beforePath) THEN TRUE         \* "Before screenshot not found"
    ELSE IF ~Exists(files, afterPath) THEN TRUE     \* "After screenshot not found"
    ELSE IF ~IsPng(files[beforePath]) THEN TRUE     \* readPng(beforePath) raises
    ELSE ~IsPng(files[afterPath])                   \* readPng(afterPath) raises

\* fs.writeFileSync(path, content)
WriteFile(files, path, content) ==
    [p \in DOMAIN files \cup {path} |-> IF p = path THEN content ELSE files[p]]

----------------------------------------------------------------------------
(* Descriptors, snapshots and artifact paths *)

Homepage ==
    [url |-> "https://site", slug |-> StrHomepage, postType |-> StrHomepage,
     title |-> "Homepage"]

\* posts of a REST response; the first two differ in identity but not in
\* their sanitized file name
PostAB ==
    [url |-> "https://site/a-b", slug |-> <<"a","-","b">>, postType |-> <<"p">>,
     title |-> "A-B"]
PostA_B ==
    [url |-> "https://site/a_b", slug |-> <<"a","_","b">>, postType |-> <<"p">>,
     title |-> "A_B"]
\* a post of the post type p-a whose type and slug spell p-a-b as PostAB's do
PostB ==
    [url |-> "https://site/p-a/b", slug |-> <<"b">>, postType |-> <<"p","-","a">>,
     title |-> "B"]
Identity(d) == <<d.postType, d.slug>>

\* the url of a page whose permalink changed between the phases
MovedUrl == "https://site/moved"

Viewports == {"desktop", "mobile"}
Phases == {"before", "after"}

\* `${sanitizeFilename(urlInfo.postType)}-${sanitizeFilename(urlInfo.slug)}`
baseFilename(urlInfo) ==
    sanitizeFilename(urlInfo.postType) \o <<"-">> \o sanitizeFilename(urlInfo.slug)

\* path.join(phaseFolder, `${baseFilename}-desktop.png`), relative to the
\* project folder
ScreenshotPath(ph, urlInfo, vp) ==
    PathJoin(PhaseFolder(ph),
             baseFilename(urlInfo) \o <<"-">> \o ViewportName(vp) \o StrPng)

\* the ScreenshotResult returned by screenshotUrl
ScreenshotResult(urlInfo, ph) ==
    [url         |-> urlInfo.url,
     slug        |-> urlInfo.slug,
     postType    |-> urlInfo.postType,
     title       |-> urlInfo.title,
     desktopPath |-> ScreenshotPath(ph, urlInfo, "desktop"),
     mobilePath  |-> ScreenshotPath(ph, urlInfo, "mobile")]

\* path.join(diffFolder, `${before.postType}-${before.slug}-desktop-diff.png`)
DiffPath(before, vp) ==
    PathJoin(StrDiff,
             before.postType \o <<"-">> \o before.slug \o <<"-">>
                 \o ViewportName(vp) \o <<"-">> \o StrDiff \o StrPng)

SnapshotPath(shot, vp) == IF vp = "desktop" THEN shot.desktopPath ELSE shot.mobilePath

\* sequences over S of length at most n
SeqsUpTo(S, n) == UNION {[1..k -> S] : k \in 0..n}

EmptyFs == [p \in {} |-> Corrupt]

EmptyLog ==
    [skipped  |-> {},     \* before indices with no after snapshot
     errored  |-> {},     \* before indices whose comparison raised
     compared |-> {},     \* <<before index, viewport>> diffed without error
     recorded |-> <<>>,   \* before indices pushed to comparisons, in order
     failed   |-> {},     \* <<phase, list index, viewport>> captures that raised
     captured |-> {},     \* <<phase, list index, viewport>> rasters written
     raised   |-> {},     \* functions whose exception reached main's catch
     started  |-> {},     \* <<list index, viewport>> takeScreenshot calls entered
     finished |-> {},     \* <<list index, viewport>> takeScreenshot calls left
     ran      |-> {},     \* <<list index, viewport, step>> steps invoked
     rejected |-> {},     \* <<list index, viewport, step>> steps that rejected
     gate     |-> "unasked",  \* the answer given at the operator gate
     reports  |-> <<>>,   \* the "N of M" shown by each report saved, in order
     printed  |-> <<>>]   \* the "N of M" printed by main: <<>> or <<[N, M]>>

----------------------------------------------------------------------------
(* handleCookieBanner and takeScreenshot, step by step *)

COMMON_COOKIE_TEXTS ==
    <<"Alle akzeptieren", "Alles akzeptieren", "Akzeptieren", "Zustimmen", "OK",
      "Einverstanden", "Verstanden", "Alle Cookies akzeptieren",
      "Accept", "Accept All", "Accept all cookies", "Agree", "I Agree", "Allow",
      "Allow all", "Okay", "Got it">>

\* CookieConfig: mode is one of three literals, customText is optional
CookieConfigOf(mode, customText) == [mode |-> mode, customText |-> customText]

\* the texts a configuration can carry: absent, empty, a label of the common
\* list, a label of its own
CustomTexts == {Undefined, "", "Zustimmen", "Weiter"}

\* JavaScript truthiness of an optional string
Truthy(text) == text \notin {Undefined, ""}

\* mode === 'custom' && customText ? [customText] : COMMON_COOKIE_TEXTS
searchTexts(config) ==
    IF config.mode = "custom" /\ Truthy(config.customText)
    THEN <<config.customText>>
    ELSE COMMON_COOKIE_TEXTS

\* the three locator strategies tried for each text, in order: role=button,
\* exact text on clickable tags, loose text match
Strategies == 1..3

\* what one strategy can do on a page that is open: the locator is not
\* visible; the visibility query rejects; the click rejects; the click
\* resolves and so does the animation wait; the click resolves and the page
\* is closed during the animation wait, which then rejects
StrategyOutcomes ==
    {"invisible", "queryRejects", "clickRejects", "clicked", "clickedThenClosed"}

FreshPage == [closed |-> FALSE]

IdleBanner ==
    [at          |-> "idle",
     searchTexts |-> <<>>,
     text        |-> 0,        \* position of the for-of loop over searchTexts
     strategy    |-> 0,        \* strategy about to be tried for that text
     tried       |-> <<>>,     \* <<text position, strategy>> tried so far
     clicked     |-> <<>>,     \* <<text position, strategy>> whose click resolved
     ignored     |-> {}]       \* the errors swallowed by the catch blocks

\* the errors a catch block of handleCookieBanner swallows
IgnoredErrorsButClick == {"wheel", "query", "animation", "dump"}

IgnoredErrors == {"wheel", "query", "click", "animation", "dump"}

\* the awaited steps of takeScreenshot, in order
CaptureProcedure ==
    <<"setViewportSize", "goto", "handleCookieBanner", "scrollToLoadAllContent",
      "waitForLoadState", "waitForTimeout", "screenshot">>

StepPosition(s) == CHOOSE k \in 1..Len(CaptureProcedure) : CaptureProcedure[k] = s

StepAfter(s) ==
    IF StepPosition(s) < Len(CaptureProcedure)
    THEN CaptureProcedure[StepPosition(s) + 1]
    ELSE "return"

\* a takeScreenshot whose steps are each wrapped in their own try/catch
StepAfterRejectionBestEffort(s) == StepAfter(s)

\* takeScreenshot has no try/catch: a rejected step leaves the function
StepAfterRejection(s) == "rejected"

\* mobile before desktop
CaptureOrderMobileFirst == <<"mobile", "desktop">>

\* the try block of screenshotUrl: desktop, then mobile
CaptureOrder == <<"desktop", "mobile">>

\* where screenshotUrl goes after takeScreenshot returned for vp
ViewportAfter(vp) ==
    IF \E k \in 1..(Len(CaptureOrder) - 1) : CaptureOrder[k] = vp
    THEN CaptureOrder[(CHOOSE k \in 1..(Len(CaptureOrder) - 1) : CaptureOrder[k] = vp) + 1]
    ELSE "close"

CaptureIdle ==
    /\ step = "idle"
    /\ page = FreshPage
    /\ banner = IdleBanner

\* the call takeScreenshot(page, urlInfo.url, path, vp)
TakeScreenshotEnter ==
    /\ pc = "screenshotAll"
    /\ cap \in Viewports
    /\ step = "idle"
    /\ step' = CaptureProcedure[1]
    /\ log' = [log EXCEPT !.started = @ \cup {<<idx + 1, cap>>}]
    /\ UNCHANGED <<pc, urls, browser, openContexts, phase, idx, results, cap, fs,
                   beforeScreenshots, afterScreenshots, comparisons,
                   configComparisons, endTime, di, cmp, cookieConfig, page, banner>>
    /\ UNCHANGED unitVars

\* the log after step s of the running takeScreenshot rejected: the error is
\* caught by screenshotUrl
LogRejected(s) ==
    [log EXCEPT !.ran = @ \cup {<<idx + 1, cap, s>>},
                !.rejected = @ \cup {<<idx + 1, cap, s>>},
                !.failed = @ \cup {<<phase, idx + 1, cap>>},
                !.finished = @ \cup {<<idx + 1, cap>>}]

\* one awaited Playwright step of takeScreenshot other than the cookie banner
\* and the raster: it resolves, or it rejects (always, on a closed page) and
\* takeScreenshot is left for the catch and finally blocks of screenshotUrl
PageStep(s) ==
    /\ pc = "screenshotAll"
    /\ step = s
    /\ \E resolves \in (IF page.closed THEN {FALSE} ELSE BOOLEAN) :
          IF resolves
          THEN /\ step' = StepAfter(s)
               /\ log' = [log EXCEPT !.ran = @ \cup {<<idx + 1, cap, s>>}]
               /\ UNCHANGED <<cap, page>>
          ELSE IF StepAfterRejection(s) = "rejected"
          THEN /\ step' = "idle"
               /\ cap' = "close"
               /\ page' = FreshPage
               /\ log' = LogRejected(s)
          ELSE /\ step' = StepAfterRejection(s)
               /\ log' = [log EXCEPT !.ran = @ \cup {<<idx + 1, cap, s>>},
                                      !.rejected = @ \cup {<<idx + 1, cap, s>>}]
               /\ UNCHANGED <<cap, page>>
    /\ UNCHANGED <<pc, urls, browser, openContexts, phase, idx, results, fs,
                   beforeScreenshots, afterScreenshots, comparisons,
                   configComparisons, endTime, di, cmp, cookieConfig, banner>>
    /\ UNCHANGED unitVars

SetViewportSize == PageStep("setViewportSize")
Goto == PageStep("goto")
ScrollToLoadAllContent == PageStep("scrollToLoadAllContent")
WaitForLoadState == PageStep("waitForLoadState")
WaitForTimeout == PageStep("waitForTimeout")

\* page.screenshot({path, fullPage: true}) and the return of takeScreenshot
Screenshot ==
    /\ pc = "screenshotAll"
    /\ step = "screenshot"
    /\ \E resolves \in (IF page.closed THEN {FALSE} ELSE BOOLEAN) :
          IF resolves
          THEN /\ fs' = WriteFile(fs, ScreenshotPath(phase, urls[idx + 1], cap),
                                  NewImage(1, 1, <<White>>))
               /\ log' = [log EXCEPT !.ran = @ \cup {<<idx + 1, cap, "screenshot">>},
                                      !.captured = @ \cup {<<phase, idx + 1, cap>>},
                                      !.finished = @ \cup {<<idx + 1, cap>>}]
               /\ cap' = ViewportAfter(cap)
               /\ UNCHANGED page
          ELSE /\ cap' = "close"
               /\ page' = FreshPage
               /\ log' = LogRejected("screenshot")
               /\ UNCHANGED fs
    /\ step' = "idle"
    /\ UNCHANGED <<pc, urls, browser, openContexts, phase, idx, results,
                   beforeScreenshots, afterScreenshots, comparisons,
                   configComparisons, endTime, di, cmp, cookieConfig, banner>>
    /\ UNCHANGED unitVars

\* handleCookieBanner up to its loop: mode 'none' returns at once; else the
\* wheel scroll and its wait run inside a try whose catch ignores the error,
\* and searchTexts is computed
HandleCookieBannerEnter ==
    /\ pc = "screenshotAll"
    /\ step = "handleCookieBanner"
    /\ banner.at = "idle"
    /\ IF cookieConfig.mode = "none"
       THEN /\ step' = StepAfter("handleCookieBanner")
            /\ UNCHANGED banner
       ELSE /\ \E wheel \in (IF page.closed THEN {FALSE} ELSE BOOLEAN) :
                  banner' = [IdleBanner EXCEPT
                               !.at = "loop",
                               !.searchTexts = searchTexts(cookieConfig),
                               !.text = 1,
                               !.strategy = 1,
                               !.ignored = IF wheel THEN {} ELSE {"wheel"}]
            /\ UNCHANGED step
    /\ log' = [log EXCEPT !.ran = @ \cup {<<idx + 1, cap, "handleCookieBanner">>}]
    /\ UNCHANGED <<pc, urls, browser, openContexts, phase, idx, results, cap, fs,
                   beforeScreenshots, afterScreenshots, comparisons,
                   configComparisons, endTime, di, cmp, cookieConfig, page>>
    /\ UNCHANGED unitVars

\* the locals after a strategy that did not return: the next strategy for the
\* same text, then the first strategy for the next text, then the end of the
\* loop
BannerAdvanced(b) ==
    IF b.strategy < 3
    THEN [b EXCEPT !.strategy = @ + 1]
    ELSE IF b.text < Len(b.searchTexts)
    THEN [b EXCEPT !.text = @ + 1, !.strategy = 1]
    ELSE [b EXCEPT !.at = "exhausted"]

\* the error kind an outcome throws inside the try of a strategy, "" if none
ErrorOf(outcome) ==
    CASE outcome = "queryRejects" -> "query"
      [] outcome = "clickRejects" -> "click"
      [] outcome = "clickedThenClosed" -> "animation"
      [] OTHER -> ""

\* one strategy for one text (one of the three try blocks of the loop body):
\* isVisible / count, then click, then waitForTimeout(1500) and return; an
\* error thrown by any of them is swallowed by the catch of that block
BannerAttempt ==
    /\ pc = "screenshotAll"
    /\ step = "handleCookieBanner"
    /\ banner.at = "loop"
    /\ \E outcome \in (IF page.closed THEN {"queryRejects"} ELSE StrategyOutcomes) :
          LET here    == <<banner.text, banner.strategy>>
              tried   == [banner EXCEPT !.tried = Append(@, here)]
              clicked == IF outcome \in {"clicked", "clickedThenClosed"}
                         THEN [tried EXCEPT !.clicked = Append(@, here)]
                         ELSE tried
          IN
          IF outcome = "clicked"
          THEN /\ banner' = [clicked EXCEPT !.at = "return"]
               /\ UNCHANGED <<step, cap, page, log>>
          ELSE IF ErrorOf(outcome) = "" \/ ErrorOf(outcome) \in IgnoredErrors
          THEN /\ banner' = BannerAdvanced(
                               [clicked EXCEPT !.ignored =
                                   @ \cup ({ErrorOf(outcome)} \ {""})])
               /\ page' = [closed |-> page.closed \/ outcome = "clickedThenClosed"]
               /\ UNCHANGED <<step, cap, log>>
          ELSE /\ banner' = IdleBanner
               /\ step' = "idle"
               /\ cap' = "close"
               /\ page' = FreshPage
               /\ log' = LogRejected("handleCookieBanner")
    /\ UNCHANGED <<pc, urls, browser, openContexts, phase, idx, results, fs,
                   beforeScreenshots, afterScreenshots, comparisons,
                   configComparisons, endTime, di, cmp, cookieConfig>>
    /\ UNCHANGED unitVars

\* the end of the loop without a click: in custom mode the warning and the
\* dump of the visible buttons, whose error is ignored
BannerExhausted ==
    /\ pc = "screenshotAll"
    /\ step = "handleCookieBanner"
    /\ banner.at = "exhausted"
    /\ \E dump \in (IF page.closed THEN {FALSE} ELSE BOOLEAN) :
          banner' = [banner EXCEPT
                       !.at = "return",
                       !.ignored = IF cookieConfig.mode = "custom" /\ ~dump
                                   THEN @ \cup {"dump"} ELSE @]
    /\ UNCHANGED <<pc, urls, browser, openContexts, phase, idx, results, cap, fs,
                   beforeScreenshots, afterScreenshots, comparisons,
                   configComparisons, endTime, di, log, cmp, cookieConfig,
                   step, page>>
    /\ UNCHANGED unitVars

\* handleCookieBanner returns to takeScreenshot
HandleCookieBannerReturn ==
    /\ pc = "screenshotAll"
    /\ step = "handleCookieBanner"
    /\ banner.at = "return"
    /\ step' = StepAfter("handleCookieBanner")
    /\ banner' = IdleBanner
    /\ UNCHANGED <<pc, urls, browser, openContexts, phase, idx, results, cap, fs,
                   beforeScreenshots, afterScreenshots, comparisons,
                   configComparisons, endTime, di, log, cmp, cookieConfig, page>>
    /\ UNCHANGED unitVars

----------------------------------------------------------------------------
(* generateDiffComparisons *)

\* pairing by the url of the snapshot instead of its identity
FindAfterByUrl(afters, before) ==
    LET hits == {k \in 1..Len(afters) : afters[k].url = before.url}
    IN  IF hits = {} THEN 0 ELSE CHOOSE k \in hits : \A m \in hits : k <= m

\* config.afterScreenshots.find(a => a.slug === before.slug &&
\*                                   a.postType === before.postType),
\* as the position of the element found; 0 stands for undefined
FindAfter(afters, before) ==
    LET hits == {k \in 1..Len(afters) :
                    afters[k].slug = before.slug /\ afters[k].postType = before.postType}
    IN  IF hits = {} THEN 0 ELSE CHOOSE k \in hits : \A m \in hits : k <= m

\* a catch around the whole loop: the first error ends the loop
LoopPositionAfterAbort(position, length) == length

\* the catch inside the loop body: the loop goes on with the next snapshot
LoopPositionAfterError(position, length) == position + 1

\* the record pushed as soon as the desktop comparison succeeded
RecordNeedsDesktopOnly(desktopOk, mobileOk) == desktopOk

\* comparisons.push is reached only if neither compareScreenshots call raised
RecordPushed(desktopOk, mobileOk) == desktopOk /\ mobileOk

ComparisonResult(before, after, desktopDiff, mobileDiff) ==
    [url      |-> before.url,
     slug     |-> before.slug,
     postType |-> before.postType,
     title    |-> before.title,
     before   |-> [desktopPath |-> before.desktopPath, mobilePath |-> before.mobilePath],
     after    |-> [desktopPath |-> after.desktopPath, mobilePath |-> after.mobilePath],
     diff     |-> [desktop |-> desktopDiff, mobile |-> mobileDiff]]

\* one iteration of the for-of loop: the snapshot is skipped when it has no
\* after snapshot; else the try block runs the desktop comparison, the mobile
\* comparison and the push, and an error thrown by either compareScreenshots
\* call is caught and logged
DiffIteration ==
    /\ pc = "diff"
    /\ di < Len(beforeScreenshots)
    /\ LET before == beforeScreenshots[di + 1]
           found  == FindAfter(afterScreenshots, before)
       IN
       IF found = 0
       THEN /\ di' = di + 1
            /\ log' = [log EXCEPT !.skipped = @ \cup {di + 1}]
            /\ UNCHANGED <<fs, comparisons, cmp>>
       ELSE
       LET after     == afterScreenshots[found]
           desktopOk == ~CompareThrows(fs, before.desktopPath, after.desktopPath)
       IN
       IF ~desktopOk
       THEN /\ di' = LoopPositionAfterError(di, Len(beforeScreenshots))
            /\ log' = [log EXCEPT !.errored = @ \cup {di + 1}]
            /\ UNCHANGED <<fs, comparisons, cmp>>
       ELSE \E aaD \in AAChoices(fs[before.desktopPath], fs[after.desktopPath]) :
            LET d   == CompareImages(fs[before.desktopPath], fs[after.desktopPath],
                                     DiffPath(before, "desktop"), aaD)
                fs1 == WriteFile(fs, DiffPath(before, "desktop"), d.diff)
                mobileOk == ~CompareThrows(fs1, before.mobilePath, after.mobilePath)
            IN
            IF ~mobileOk
            THEN /\ fs' = fs1
                 /\ cmp' = <<d>>
                 /\ IF RecordPushed(desktopOk, mobileOk)
                    THEN /\ comparisons' = Append(comparisons,
                                ComparisonResult(before, after, d.result, d.result))
                         /\ di' = di + 1
                         /\ log' = [log EXCEPT
                                      !.compared = @ \cup {<<di + 1, "desktop">>},
                                      !.recorded = Append(@, di + 1)]
                    ELSE /\ comparisons' = comparisons
                         /\ di' = LoopPositionAfterError(di, Len(beforeScreenshots))
                         /\ log' = [log EXCEPT
                                      !.compared = @ \cup {<<di + 1, "desktop">>},
                                      !.errored = @ \cup {di + 1}]
            ELSE \E aaM \in AAChoices(fs1[before.mobilePath], fs1[after.mobilePath]) :
                 LET m == CompareImages(fs1[before.mobilePath], fs1[after.mobilePath],
                                        DiffPath(before, "mobile"), aaM)
                 IN
                 /\ fs' = WriteFile(fs1, DiffPath(before, "mobile"), m.diff)
                 /\ cmp' = <<m>>
                 /\ comparisons' = Append(comparisons,
                        ComparisonResult(before, after, d.result, m.result))
                 /\ di' = di + 1
                 /\ log' = [log EXCEPT
                              !.compared = @ \cup {<<di + 1, "desktop">>,
                                                   <<di + 1, "mobile">>},
                              !.recorded = Append(@, di + 1)]
    /\ UNCHANGED <<pc, urls, browser, openContexts, phase, idx, results, cap,
                   beforeScreenshots, afterScreenshots, configComparisons, endTime>>
    /\ UNCHANGED captureVars
    /\ UNCHANGED unitVars

\* return comparisons; main assigns it to config.comparisons
DiffReturn ==
    /\ pc = "diff"
    /\ di >= Len(beforeScreenshots)
    /\ configComparisons' = <<comparisons>>
    /\ pc' = "diffed"
    /\ UNCHANGED <<urls, browser, openContexts, phase, idx, results, cap, fs,
                   beforeScreenshots, afterScreenshots, comparisons, endTime,
                   di, log, cmp>>
    /\ UNCHANGED captureVars
    /\ UNCHANGED unitVars

----------------------------------------------------------------------------
(* SpecDiff: compareScreenshots on every pair of stored files *)

\* every image of at most MaxPixels pixels over the given colours
ImagesOver(colours) ==
    UNION {{NewImage(c[1], c[2], d) : d \in [1..(c[1] * c[2]) -> colours]} :
            c \in {c \in (1..MaxPixels) \X (1..MaxPixels) : c[1] * c[2] <= MaxPixels}}

\* the stored rasters of SpecDiff: black-and-white before images, and after
\* images that may also hold a shade within the threshold of white
BeforeImages == ImagesOver({White, Black})
AfterImages  == ImagesOver(Palette)

Missing == [width |-> -1, height |-> -1, data |-> <<>>]

\* a storage holding the given contents at the given paths (none if Missing)
Storage(paths, content) ==
    [p \in {q \in paths : content[q] # Missing} |-> content[p]]

DiffBeforePath == ScreenshotPath("before", Homepage, "desktop")
DiffAfterPath  == ScreenshotPath("after", Homepage, "desktop")

Idle ==
    /\ CaptureIdle
    /\ UnitIdle
    /\ cookieConfig = CookieConfigOf("auto", Undefined)
    /\ urls = <<>>
    /\ browser = FALSE
    /\ openContexts = 0
    /\ phase = Undefined
    /\ idx = 0
    /\ results = <<>>
    /\ cap = "idle"
    /\ beforeScreenshots = <<>>
    /\ afterScreenshots = <<>>
    /\ comparisons = <<>>
    /\ configComparisons = <<>>
    /\ endTime = FALSE
    /\ di = 0
    /\ log = EmptyLog
    /\ cmp = <<>>

InitDiff ==
    /\ Idle
    /\ pc = "compare"
    /\ \E b \in BeforeImages \cup {Corrupt, Missing} :
       \E a \in AfterImages \cup {Corrupt, Missing} :
          fs = Storage({DiffBeforePath, DiffAfterPath},
                       [q \in {DiffBeforePath, DiffAfterPath} |->
                            IF q = DiffBeforePath THEN b ELSE a])

\* compareScreenshots raising: a file does not exist or is no PNG
CompareRaises ==
    /\ pc = "compare"
    /\ CompareThrows(fs, DiffBeforePath, DiffAfterPath)
    /\ pc' = "threw"
    /\ UNCHANGED <<urls, browser, openContexts, phase, idx, results, cap, fs,
                   beforeScreenshots, afterScreenshots, comparisons,
                   configComparisons, endTime, di, log, cmp>>
    /\ UNCHANGED captureVars
    /\ UNCHANGED unitVars

\* compareScreenshots returning a DiffResult and writing the diff image
CompareReturns ==
    /\ pc = "compare"
    /\ ~CompareThrows(fs, DiffBeforePath, DiffAfterPath)
    /\ \E aa \in AAChoices(fs[DiffBeforePath], fs[DiffAfterPath]) :
          /\ cmp' = <<CompareImages(fs[DiffBeforePath], fs[DiffAfterPath],
                                    DiffPath(Homepage, "desktop"), aa)>>
          /\ fs' = WriteFile(fs, DiffPath(Homepage, "desktop"), cmp'[1].diff)
    /\ pc' = "compared"
    /\ UNCHANGED <<urls, browser, openContexts, phase, idx, results, cap,
                   beforeScreenshots, afterScreenshots, comparisons,
                   configComparisons, endTime, di, log>>
    /\ UNCHANGED captureVars
    /\ UNCHANGED unitVars

NextDiff == CompareRaises \/ CompareReturns

SpecDiff == InitDiff /\ [][NextDiff]_vars

----------------------------------------------------------------------------
(* SpecPair: generateDiffComparisons on arbitrary before and after sets *)

\* the two renderings a page can have in this model
ImgA == NewImage(1, 1, <<White>>)
ImgB == NewImage(1, 2, <<White, Black>>)

PairPool == {Homepage, PostAB, PostA_B, PostB}

BeforeSnapshots == {ScreenshotResult(d, "before") : d \in PairPool}

AfterSnapshots ==
    {ScreenshotResult([d EXCEPT !.url = u], "after") :
        <<d, u>> \in {c \in PairPool \X {MovedUrl, Homepage.url, PostAB.url, PostA_B.url,
                                       PostB.url} :
                        c[2] \in {c[1].url, MovedUrl}}}

ArtifactPaths ==
    {SnapshotPath(s, vp) : <<s, vp>> \in (BeforeSnapshots \cup AfterSnapshots) \X Viewports}

\* every artifact present and readable; the after mobile rasters differ
FullStorage ==
    [p \in ArtifactPaths |->
        IF \E s \in AfterSnapshots : p = s.mobilePath THEN ImgB ELSE ImgA]

\* the storages of SpecPair: at most one artifact is missing or corrupt
PairStorages ==
    {FullStorage}
    \cup {[p \in ArtifactPaths \ {q} |-> FullStorage[p]] : q \in ArtifactPaths}
    \cup {[FullStorage EXCEPT ![q] = Corrupt] : q \in ArtifactPaths}

InitPair ==
    /\ CaptureIdle
    /\ UnitIdle
    /\ cookieConfig = CookieConfigOf("auto", Undefined)
    /\ urls = <<>>
    /\ browser = FALSE
    /\ openContexts = 0
    /\ phase = Undefined
    /\ idx = 0
    /\ results = <<>>
    /\ cap = "idle"
    /\ comparisons = <<>>
    /\ configComparisons = <<>>
    /\ endTime = FALSE
    /\ di = 0
    /\ log = EmptyLog
    /\ cmp = <<>>
    /\ pc = "diff"
    /\ beforeScreenshots \in SeqsUpTo(BeforeSnapshots, MaxSet)
    /\ afterScreenshots \in SeqsUpTo(AfterSnapshots, MaxSet)
    /\ fs \in PairStorages

NextPair == DiffIteration \/ DiffReturn

SpecPair == InitPair /\ [][NextPair]_vars

----------------------------------------------------------------------------
(* Spec: one run of main() from buildUrlList on *)

PostPool == {PostAB, PostA_B}

\* c.diff.desktop.diffPixels > 0 || c.diff.mobile.diffPixels > 0
HasChanges(c) == c.diff.desktop.diffPixels > 0 \/ c.diff.mobile.diffPixels > 0

\* main: config.comparisons.reduce((acc, c) => acc + (changed ? 1 : 0), 0)
RECURSIVE totalChanges(_)
totalChanges(cs) ==
    IF cs = <<>> THEN 0
    ELSE totalChanges(SubSeq(cs, 1, Len(cs) - 1))
           + (IF HasChanges(cs[Len(cs)]) THEN 1 ELSE 0)

\* a report counting the desktop changes only
changedCountDesktopOnly(cs) ==
    Len(SelectSeq(cs, LAMBDA c : c.diff.desktop.diffPixels > 0))

\* generateReport: comparisons.filter(c => changed).length
changedCount(cs) == Len(SelectSeq(cs, HasChanges))

\* the "N of M" of the report generated from config: comparisons is
\* config.comparisons || []
ReportCounts(cc) ==
    LET cs == IF cc = <<>> THEN <<>> ELSE cc[1]
    IN  [changed |-> changedCount(cs), total |-> Len(cs)]

\* the gate that lets every answer through
GateOpensAlways(answer) == TRUE

\* if (!continueToAfter) { ...; return; }
GateOpens(answer) == answer = "yes"

\* the steps of takeScreenshot that can reject
CaptureSteps == {"setViewportSize", "goto", "scrollToLoadAllContent",
                 "waitForLoadState", "waitForTimeout", "screenshot"}

\* the steps of screenshotUrl before its try block
SetupSteps == {"newContext", "newPage", "ensureDir"}

\* the raster a capture produces: every page renders as ImgA before the
\* update, and as ImgA or ImgB after it
Renderings(ph) == IF ph = "before" THEN {ImgA} ELSE {ImgA, ImgB}

Init ==
    /\ pc = "buildUrlList"
    /\ CaptureIdle
    /\ UnitIdle
    /\ cookieConfig = CookieConfigOf("auto", Undefined)
    /\ urls = <<>>
    /\ browser = FALSE
    /\ openContexts = 0
    /\ phase = Undefined
    /\ idx = 0
    /\ results = <<>>
    /\ cap = "idle"
    /\ fs = EmptyFs
    /\ beforeScreenshots = <<>>
    /\ afterScreenshots = <<>>
    /\ comparisons = <<>>
    /\ configComparisons = <<>>
    /\ endTime = FALSE
    /\ di = 0
    /\ log = EmptyLog
    /\ cmp = <<>>

\* buildUrlList: the homepage descriptor, then one descriptor per post of the
\* REST response (none when the REST API fails)
BuildUrlList ==
    /\ pc = "buildUrlList"
    /\ \E posts \in SeqsUpTo(PostPool, MaxPosts) : urls' = <<Homepage>> \o posts
    /\ pc' = "init"
    /\ UNCHANGED <<browser, openContexts, phase, idx, results, cap, fs,
                   beforeScreenshots, afterScreenshots, comparisons,
                   configComparisons, endTime, di, log, cmp>>
    /\ UNCHANGED captureVars
    /\ UNCHANGED unitVars

\* screenshotManager.init(), then the call screenshotAll(urls, "before");
\* a failed launch reaches main's catch
InitBrowser ==
    /\ pc = "init"
    /\ \E launched \in BOOLEAN :
          IF launched
          THEN /\ browser' = TRUE
               /\ pc' = "screenshotAll"
               /\ phase' = "before"
               /\ UNCHANGED log
          ELSE /\ pc' = "failed"
               /\ log' = [log EXCEPT !.raised = @ \cup {"init"}]
               /\ UNCHANGED <<browser, phase>>
    /\ idx' = 0
    /\ results' = <<>>
    /\ UNCHANGED <<urls, openContexts, cap, fs, beforeScreenshots,
                   afterScreenshots, comparisons, configComparisons, endTime,
                   di, cmp>>
    /\ UNCHANGED captureVars
    /\ UNCHANGED unitVars

\* screenshotUrl up to its try block: the browser check, newContext, newPage
\* and ensureDir are outside the try, so a failure there leaves screenshotUrl
\* and screenshotAll and reaches main's catch (process.exit(1))
ScreenshotUrlSetup ==
    /\ pc = "screenshotAll"
    /\ cap = "idle"
    /\ idx < Len(urls)
    /\ \E failing \in SetupSteps \cup {"none"} :
          IF browser /\ failing = "none"
          THEN /\ openContexts' = openContexts + 1
               /\ cap' = CaptureOrder[1]
               /\ UNCHANGED <<pc, log>>
          ELSE /\ openContexts' = IF browser /\ failing # "newContext"
                                  THEN openContexts + 1 ELSE openContexts
               /\ pc' = "failed"
               /\ log' = [log EXCEPT !.raised = @ \cup {"screenshotUrl"}]
               /\ UNCHANGED cap
    /\ UNCHANGED <<urls, browser, phase, idx, results, fs, beforeScreenshots,
                   afterScreenshots, comparisons, configComparisons, endTime,
                   di, cmp>>
    /\ UNCHANGED captureVars
    /\ UNCHANGED unitVars

\* takeScreenshot(page, url, path, vp) inside the try block of screenshotUrl:
\* either every step succeeds and the raster is written, or a step rejects,
\* which the catch logs; then the finally block runs
TakeScreenshot(vp) ==
    /\ pc = "screenshotAll"
    /\ cap = vp
    /\ \E failing \in CaptureSteps \cup {"none"} :
          IF failing = "none"
          THEN \E raster \in Renderings(phase) :
                  /\ fs' = WriteFile(fs, ScreenshotPath(phase, urls[idx + 1], vp), raster)
                  /\ log' = [log EXCEPT !.captured = @ \cup {<<phase, idx + 1, vp>>}]
                  /\ cap' = ViewportAfter(vp)
          ELSE /\ log' = [log EXCEPT !.failed = @ \cup {<<phase, idx + 1, vp>>}]
               /\ cap' = "close"
               /\ UNCHANGED fs
    /\ UNCHANGED <<pc, urls, browser, openContexts, phase, idx, results,
                   beforeScreenshots, afterScreenshots, comparisons,
                   configComparisons, endTime, di, cmp>>
    /\ UNCHANGED captureVars
    /\ UNCHANGED unitVars

TakeDesktopScreenshot == TakeScreenshot("desktop")
TakeMobileScreenshot == TakeScreenshot("mobile")

\* screenshotAll dropping the result of a descriptor whose capture raised
ResultsAfterSkippingFailed(collected, result, captureFailed) ==
    IF captureFailed THEN collected ELSE Append(collected, result)

\* results.push(result) for whatever screenshotUrl returned
ResultsAfter(collected, result, captureFailed) == Append(collected, result)

\* the finally block of screenshotUrl (context.close()), its return value,
\* and results.push(result) in screenshotAll; a rejected close leaves
\* screenshotUrl as an exception
ScreenshotUrlReturn ==
    /\ pc = "screenshotAll"
    /\ cap = "close"
    /\ \E closed \in BOOLEAN :
          IF closed
          THEN /\ openContexts' = openContexts - 1
               /\ results' = ResultsAfter(results,
                                 ScreenshotResult(urls[idx + 1], phase),
                                 \E vp \in Viewports : <<phase, idx + 1, vp>> \in log.failed)
               /\ idx' = idx + 1
               /\ cap' = "idle"
               /\ UNCHANGED <<pc, log>>
          ELSE /\ pc' = "failed"
               /\ log' = [log EXCEPT !.raised = @ \cup {"screenshotUrl"}]
               /\ UNCHANGED <<openContexts, results, idx, cap>>
    /\ UNCHANGED <<urls, browser, phase, fs, beforeScreenshots, afterScreenshots,
                   comparisons, configComparisons, endTime, di, cmp>>
    /\ UNCHANGED captureVars
    /\ UNCHANGED unitVars

\* screenshotAll(urls, "before") returns; config.beforeScreenshots is
\* assigned and the interim report is saved (writeFileSync can throw)
BeforePhaseReturn ==
    /\ pc = "screenshotAll"
    /\ phase = "before"
    /\ cap = "idle"
    /\ idx >= Len(urls)
    /\ beforeScreenshots' = results
    /\ \E saved \in BOOLEAN :
          IF saved
          THEN /\ pc' = "confirm"
               /\ log' = [log EXCEPT !.reports = Append(@, ReportCounts(configComparisons))]
          ELSE /\ pc' = "failed"
               /\ log' = [log EXCEPT !.raised = @ \cup {"saveReport"}]
    /\ UNCHANGED <<urls, browser, openContexts, phase, idx, results, cap, fs,
                   afterScreenshots, comparisons, configComparisons, endTime,
                   di, cmp>>
    /\ UNCHANGED captureVars
    /\ UNCHANGED unitVars

\* the operator gate: on yes screenshotAll(urls, "after") is called, on no the
\* browser is closed and main returns; a cancelled prompt throws
\* ExitPromptError, which main's catch turns into process.exit(0)
Confirm ==
    /\ pc = "confirm"
    /\ \E answer \in {"yes", "no", "cancelled"} :
          /\ log' = [log EXCEPT !.gate = answer,
                                !.raised = IF answer = "cancelled"
                                           THEN @ \cup {"confirm"} ELSE @]
          /\ IF answer = "cancelled"
             THEN /\ pc' = "failed"
                  /\ UNCHANGED <<phase, idx, results, browser>>
             ELSE IF GateOpens(answer)
             THEN /\ pc' = "screenshotAll"
                  /\ phase' = "after"
                  /\ idx' = 0
                  /\ results' = <<>>
                  /\ UNCHANGED browser
             ELSE /\ pc' = "exited"
                  /\ browser' = FALSE
                  /\ UNCHANGED <<phase, idx, results>>
    /\ UNCHANGED <<urls, openContexts, cap, fs, beforeScreenshots,
                   afterScreenshots, comparisons, configComparisons, endTime,
                   di, cmp>>
    /\ UNCHANGED captureVars
    /\ UNCHANGED unitVars

\* screenshotAll(urls, "after") returns; config.afterScreenshots and
\* config.endTime are assigned, the browser is closed and
\* generateDiffComparisons(config) is entered, which creates the diff folder;
\* a rejected close or a failed mkdirSync reaches main's catch
AfterPhaseReturn ==
    /\ pc = "screenshotAll"
    /\ phase = "after"
    /\ cap = "idle"
    /\ idx >= Len(urls)
    /\ afterScreenshots' = results
    /\ endTime' = TRUE
    /\ \E failing \in {"none", "close", "mkdirSync"} :
          /\ browser' = (failing = "close")
          /\ IF failing = "none"
             THEN /\ pc' = "diff"
                  /\ UNCHANGED log
             ELSE /\ pc' = "failed"
                  /\ log' = [log EXCEPT !.raised = @ \cup
                                {IF failing = "close" THEN "close"
                                 ELSE "generateDiffComparisons"}]
    /\ comparisons' = <<>>
    /\ di' = 0
    /\ UNCHANGED <<urls, openContexts, phase, idx, results, cap, fs,
                   beforeScreenshots, configComparisons, cmp>>
    /\ UNCHANGED captureVars
    /\ UNCHANGED unitVars

\* main after generateDiffComparisons returned: the summary line is printed
\* and the final report is saved
FinalReport ==
    /\ pc = "diffed"
    /\ \E saved \in BOOLEAN :
          /\ pc' = IF saved THEN "done" ELSE "failed"
          /\ log' = [log EXCEPT
                       !.printed = <<[changed |-> totalChanges(configComparisons[1]),
                                      total   |-> Len(configComparisons[1])]>>,
                       !.reports = IF saved
                                   THEN Append(@, ReportCounts(configComparisons))
                                   ELSE @,
                       !.raised = IF saved THEN @ ELSE @ \cup {"saveReport"}]
    /\ UNCHANGED <<urls, browser, openContexts, phase, idx, results, cap, fs,
                   beforeScreenshots, afterScreenshots, comparisons,
                   configComparisons, endTime, di, cmp>>
    /\ UNCHANGED captureVars
    /\ UNCHANGED unitVars

Next ==
    \/ BuildUrlList
    \/ InitBrowser
    \/ ScreenshotUrlSetup
    \/ TakeDesktopScreenshot
    \/ TakeMobileScreenshot
    \/ ScreenshotUrlReturn
    \/ BeforePhaseReturn
    \/ Confirm
    \/ AfterPhaseReturn
    \/ DiffIteration
    \/ DiffReturn
    \/ FinalReport

Spec == Init /\ [][Next]_vars

----------------------------------------------------------------------------
(* SpecCapture and SpecBanner: screenshotAll(urls, "before") with            *)
(* takeScreenshot and handleCookieBanner taken step by step.  SpecCapture    *)
(* runs descriptor lists of several descriptors with a banner of at most one *)
(* text; SpecBanner runs one descriptor under every cookie configuration.    *)

CookieConfigs ==
    {CookieConfigOf("none", Undefined), CookieConfigOf("auto", Undefined),
     CookieConfigOf("auto", "Zustimmen")}
    \cup {CookieConfigOf("custom", t) : t \in CustomTexts}

\* the state in which main calls screenshotAll(urls, "before")
CaptureStart ==
    /\ pc = "screenshotAll"
    /\ CaptureIdle
    /\ UnitIdle
    /\ browser = TRUE
    /\ openContexts = 0
    /\ phase = "before"
    /\ idx = 0
    /\ results = <<>>
    /\ cap = "idle"
    /\ fs = EmptyFs
    /\ beforeScreenshots = <<>>
    /\ afterScreenshots = <<>>
    /\ comparisons = <<>>
    /\ configComparisons = <<>>
    /\ endTime = FALSE
    /\ di = 0
    /\ log = EmptyLog
    /\ cmp = <<>>

InitCapture ==
    /\ CaptureStart
    /\ \E posts \in SeqsUpTo({PostAB}, MaxCaptureList - 1) : urls = <<Homepage>> \o posts
    /\ cookieConfig \in {CookieConfigOf("none", Undefined),
                          CookieConfigOf("custom", "Weiter")}

InitBanner ==
    /\ CaptureStart
    /\ urls = <<Homepage>>
    /\ cookieConfig \in CookieConfigs

NextCapture ==
    \/ ScreenshotUrlSetup
    \/ TakeScreenshotEnter
    \/ SetViewportSize
    \/ Goto
    \/ HandleCookieBannerEnter
    \/ BannerAttempt
    \/ BannerExhausted
    \/ HandleCookieBannerReturn
    \/ ScrollToLoadAllContent
    \/ WaitForLoadState
    \/ WaitForTimeout
    \/ Screenshot
    \/ ScreenshotUrlReturn
    \/ BeforePhaseReturn

SpecCapture == InitCapture /\ [][NextCapture]_vars

SpecBanner == InitBanner /\ [][NextCapture]_vars

----------------------------------------------------------------------------
(* SpecDiscover: main from checkApiAccess to the descriptor list, with       *)
(* fetchPostTypesWithDetails, fetchPosts, randomSelect and buildUrlList      *)

EXCLUDED_POST_TYPES ==
    {"attachment", "nav_menu_item", "wp_block", "wp_template", "wp_template_part",
     "wp_navigation", "wp_font_family", "wp_font_face", "wp_global_styles"}

EXCLUDED_REST_BASES ==
    {"media", "blocks", "templates", "template-parts", "global-styles",
     "navigation", "font-families", "menu-items"}

\* a post type of the types response; slug is the slug as a string of
\* characters, key the same slug as one string
WPPostType(key, slug, restBase) == [key |-> key, slug |-> slug, rest_base |-> restBase]

TypePost == WPPostType("post", <<"p">>, "posts")
TypeHomepage == WPPostType("homepage", StrHomepage, "homepage")
TypeAttachment == WPPostType("attachment", <<"m">>, "media")
TypeNoBase == WPPostType("revision", <<"r">>, "")

\* the filter of fetchPostTypesWithDetails
Included(type) ==
    /\ type.rest_base # ""
    /\ type.key \notin EXCLUDED_POST_TYPES
    /\ type.rest_base \notin EXCLUDED_REST_BASES

\* a post of a listing; titled is false when the response has no title field
WPPost(slug, link, titled) == [slug |-> slug, link |-> link, titled |-> titled]

\* the posts a listing can hold: two pages with the same slug under different
\* parents, a post whose slug is the reserved one, one without a public link,
\* one of a post type that does not support titles
PostsPool ==
    {WPPost(<<"a","-","b">>, "https://site/a-b", TRUE),
     WPPost(<<"a","-","b">>, "https://site/c/a-b", TRUE),
     WPPost(StrHomepage, "https://site/homepage", TRUE),
     WPPost(<<"d">>, "", TRUE),
     WPPost(<<"e">>, "https://site/e", FALSE)}

\* the types responses: the request fails, or it lists some of the types
TypesResponses ==
    {[ok |-> FALSE, list |-> <<>>]}
    \cup {[ok |-> TRUE, list |-> l] :
            l \in {<<>>, <<TypePost>>, <<TypeHomepage>>, <<TypeAttachment, TypePost>>,
                   <<TypePost, TypeNoBase, TypeHomepage>>}}

\* the listing of one post type: the request fails, or it returns posts
PostsResponses ==
    {[ok |-> FALSE, list |-> <<>>]}
    \cup {[ok |-> TRUE, list |-> l] : l \in SeqsUpTo(PostsPool, MaxListed)}

\* postsPerType of the call buildUrlList(siteUrl, 5, selectedPostTypes)
PostsPerType == 5

\* posts.filter(post => post.link && post.link.startsWith('http')) of
\* fetchPosts, [] when the request failed
fetchPosts(response) ==
    IF response.ok
    THEN SelectSeq(response.list, LAMBDA post : post.link # "")
    ELSE <<>>

\* the orders [...array].sort(() => Math.random() - 0.5) can give
Shuffles(array) ==
    {[k \in 1..Len(array) |-> array[f[k]]] :
        f \in {g \in [1..Len(array) -> 1..Len(array)] :
                  \A i, j \in 1..Len(array) : g[i] = g[j] => i = j}}

\* randomSelect(array, n): the first n of a shuffle
randomSelect(array, n) ==
    {SubSeq(shuffled, 1, Min(n, Len(shuffled))) : shuffled \in Shuffles(array)}

\* the urls.push of buildUrlList for one post
UrlToScreenshot(postType, post) ==
    [url |-> post.link, slug |-> post.slug, postType |-> postType.slug, title |-> "T"]

\* the descriptors pushed for one selection of posts of a post type:
\* post.title.rendered throws at the first post without a title
Pushed(postType, posts) ==
    LET untitled == {k \in 1..Len(posts) : ~posts[k].titled}
        stop     == IF untitled = {} THEN Len(posts) + 1
                    ELSE CHOOSE k \in untitled : \A m \in untitled : k <= m
    IN  [urls   |-> [k \in 1..(stop - 1) |-> UrlToScreenshot(postType, posts[k])],
         thrown |-> untitled # {}]

\* the descriptor lists the loops of buildUrlList can push for the post types
\* from position k on
RECURSIVE PushedFrom(_, _, _)
PushedFrom(postTypes, listings, k) ==
    IF k > Len(postTypes) THEN {[urls |-> <<>>, thrown |-> FALSE]}
    ELSE {IF here.thrown THEN here
          ELSE [urls |-> here.urls \o rest.urls, thrown |-> rest.thrown] :
            <<here, rest>> \in
              {Pushed(postTypes[k], sel) :
                  sel \in randomSelect(fetchPosts(listings[postTypes[k].key]),
                                       PostsPerType)}
              \X PushedFrom(postTypes, listings, k + 1)}

\* the post types buildUrlList works on: selectedPostTypes ?? fetchPostTypes
PostTypesOf(selected, types) ==
    IF selected # <<>> THEN selected[1] ELSE SelectSeq(types.list, Included)

\* the lists buildUrlList can return: the homepage descriptor first, then the
\* descriptors pushed before the REST API failed, if it did
UrlLists(selected, rest) ==
    IF selected = <<>> /\ ~rest.types.ok
    THEN {<<Homepage>>}
    ELSE {<<Homepage>> \o g.urls :
            g \in PushedFrom(PostTypesOf(selected, rest.types), rest.posts, 1)}

InitDiscover ==
    /\ pc = "checkApiAccess"
    /\ CaptureIdle
    /\ cookieConfig = CookieConfigOf("auto", Undefined)
    /\ urls = <<>>
    /\ browser = FALSE
    /\ openContexts = 0
    /\ phase = Undefined
    /\ idx = 0
    /\ results = <<>>
    /\ cap = "idle"
    /\ fs = EmptyFs
    /\ beforeScreenshots = <<>>
    /\ afterScreenshots = <<>>
    /\ comparisons = <<>>
    /\ configComparisons = <<>>
    /\ endTime = FALSE
    /\ di = 0
    /\ log = EmptyLog
    /\ cmp = <<>>
    /\ discovery = NoDiscovery
    /\ scroll = NoScroll
    /\ filename = NoFilename
    /\ site \in [root : BOOLEAN, types : TypesResponses,
                  posts : [{TypePost.key, TypeHomepage.key} -> PostsResponses]]

\* Step 2 of main: checkApiAccess never throws
CheckApiAccess ==
    /\ pc = "checkApiAccess"
    /\ discovery' = [discovery EXCEPT !.apiAccessible = site.root]
    /\ pc' = IF site.root THEN "fetchPostTypes" ELSE "buildUrlList"
    /\ UNCHANGED <<urls, browser, openContexts, phase, idx, results, cap, fs,
                   beforeScreenshots, afterScreenshots, comparisons,
                   configComparisons, endTime, di, log, cmp, site, scroll, filename>>
    /\ UNCHANGED captureVars

\* Step 3 of main: fetchPostTypesWithDetails is awaited outside any try but
\* main's own; it throws when the types request fails
FetchPostTypesWithDetails ==
    /\ pc = "fetchPostTypes"
    /\ IF ~site.types.ok
       THEN /\ pc' = "failed"
            /\ log' = [log EXCEPT !.raised = @ \cup {"fetchPostTypesWithDetails"}]
       ELSE /\ pc' = IF SelectSeq(site.types.list, Included) # <<>>
                     THEN "selectPostTypes" ELSE "buildUrlList"
            /\ UNCHANGED log
    /\ UNCHANGED <<urls, browser, openContexts, phase, idx, results, cap, fs,
                   beforeScreenshots, afterScreenshots, comparisons,
                   configComparisons, endTime, di, cmp>>
    /\ UNCHANGED captureVars
    /\ UNCHANGED unitVars

\* selectPostTypes(included): the operator ticks some of the types
SelectPostTypes ==
    /\ pc = "selectPostTypes"
    /\ \E selectedSlugs \in SUBSET {TypePost.key, TypeHomepage.key} :
          discovery' = [discovery EXCEPT !.selectedPostTypes =
              <<SelectSeq(SelectSeq(site.types.list, Included),
                          LAMBDA pt : pt.key \in selectedSlugs)>>]
    /\ pc' = "buildUrlList"
    /\ UNCHANGED <<urls, browser, openContexts, phase, idx, results, cap, fs,
                   beforeScreenshots, afterScreenshots, comparisons,
                   configComparisons, endTime, di, log, cmp, site, scroll, filename>>
    /\ UNCHANGED captureVars

\* Step 6 of main: buildUrlList, and the exit when the list is empty
BuildUrlListFromRest ==
    /\ pc = "buildUrlList"
    /\ urls' \in UrlLists(discovery.selectedPostTypes, site)
    /\ pc' = IF urls' = <<>> THEN "failed" ELSE "init"
    /\ UNCHANGED <<browser, openContexts, phase, idx, results, cap, fs,
                   beforeScreenshots, afterScreenshots, comparisons,
                   configComparisons, endTime, di, log, cmp>>
    /\ UNCHANGED captureVars
    /\ UNCHANGED unitVars

NextDiscover ==
    \/ CheckApiAccess
    \/ FetchPostTypesWithDetails
    \/ SelectPostTypes
    \/ BuildUrlListFromRest

SpecDiscover == InitDiscover /\ [][NextDiscover]_vars

----------------------------------------------------------------------------
(* SpecScroll: the callback scrollToLoadAllContent evaluates in the page     *)

\* window.innerHeight for the two viewports
ViewportHeights == {1080, 844}

\* the unit of scroll.currentPosition: a fifth of a pixel, so that the step
\* viewportHeight * 0.8 is the integer 4 * viewportHeight
PositionScale == 5

scrollStep(viewportHeight) == 4 * viewportHeight

\* the rest of the program while one function is run on its own
UnitFrame ==
    /\ CaptureIdle
    /\ cookieConfig = CookieConfigOf("auto", Undefined)
    /\ urls = <<>>
    /\ browser = TRUE
    /\ openContexts = 1
    /\ phase = "before"
    /\ idx = 0
    /\ results = <<>>
    /\ cap = "idle"
    /\ fs = EmptyFs
    /\ beforeScreenshots = <<>>
    /\ afterScreenshots = <<>>
    /\ comparisons = <<>>
    /\ configComparisons = <<>>
    /\ endTime = FALSE
    /\ di = 0
    /\ log = EmptyLog
    /\ cmp = <<>>
    /\ site = NoSite
    /\ discovery = NoDiscovery

\* const scrollHeight = doc.body.scrollHeight; let currentPosition = 0
InitScroll ==
    /\ pc = "scroll"
    /\ UnitFrame
    /\ filename = NoFilename
    /\ \E blocks \in 1..MaxBlocks : \E viewportHeight \in ViewportHeights :
          scroll = [scrollHeight    |-> blocks * LazyBlock,
                    viewportHeight  |-> viewportHeight,
                    currentPosition |-> 0,
                    height          |-> blocks * LazyBlock]

\* one iteration of the while loop: scrollTo(0, currentPosition), the delay
\* during which lazy content may make the document taller, and
\* currentPosition += scrollStep; newScrollHeight is read and not used
ScrollDown ==
    /\ pc = "scroll"
    /\ scroll.currentPosition < PositionScale * scroll.scrollHeight
    /\ \E grown \in {0, LazyBlock} :
          /\ scroll.height + grown <= scroll.scrollHeight + MaxLazyBlocks * LazyBlock
          /\ scroll' = [scroll EXCEPT
                          !.currentPosition = @ + scrollStep(scroll.viewportHeight),
                          !.height = @ + grown]
    /\ UNCHANGED <<pc, urls, browser, openContexts, phase, idx, results, cap, fs,
                   beforeScreenshots, afterScreenshots, comparisons,
                   configComparisons, endTime, di, log, cmp, site, discovery,
                   filename>>
    /\ UNCHANGED captureVars

\* the loop is left; scrollTo(0, doc.body.scrollHeight) and scrollTo(0, 0)
ScrollReturn ==
    /\ pc = "scroll"
    /\ ~(scroll.currentPosition < PositionScale * scroll.scrollHeight)
    /\ pc' = "scrolled"
    /\ UNCHANGED <<urls, browser, openContexts, phase, idx, results, cap, fs,
                   beforeScreenshots, afterScreenshots, comparisons,
                   configComparisons, endTime, di, log, cmp>>
    /\ UNCHANGED captureVars
    /\ UNCHANGED unitVars

NextScroll == ScrollDown \/ ScrollReturn

SpecScroll == InitScroll /\ [][NextScroll]_vars

----------------------------------------------------------------------------
(* SpecSanitize: sanitizeFilename on names around the length limit *)

AffixAlphabet == {"a", "B", "-", "_", "9"}

\* n times the letter x
Letters(n) == [k \in 1..n |-> "x"]

\* the lengths of the run of letters in the middle of a name
RunLengths == {0, FilenameLimit - 1, FilenameLimit}

Names ==
    {pre \o Letters(n) \o post :
        <<pre, n, post>> \in SeqsUpTo(AffixAlphabet, MaxAffix) \X RunLengths
                               \X SeqsUpTo(AffixAlphabet, MaxAffix)}

InitSanitize ==
    /\ pc = "sanitizeFilename"
    /\ UnitFrame
    /\ scroll = NoScroll
    /\ filename \in {[name |-> n, result |-> <<>>] : n \in Names}

\* the call sanitizeFilename(name)
SanitizeFilename ==
    /\ pc = "sanitizeFilename"
    /\ filename' = [filename EXCEPT !.result = <<sanitizeFilename(filename.name)>>]
    /\ pc' = "sanitized"
    /\ UNCHANGED <<urls, browser, openContexts, phase, idx, results, cap, fs,
                   beforeScreenshots, afterScreenshots, comparisons,
                   configComparisons, endTime, di, log, cmp, site, discovery,
                   scroll>>
    /\ UNCHANGED captureVars

NextSanitize == SanitizeFilename

SpecSanitize == InitSanitize /\ [][NextSanitize]_vars

----------------------------------------------------------------------------
(* The report generated from config: generateSidebarNav and                  *)
(* generateComparisonCard                                                    *)

\* comparisons.find(c => c.slug === s.slug && c.postType === s.postType), as
\* the position of the record found; 0 stands for undefined
FindComparison(cs, s) ==
    LET hits == {k \in 1..Len(cs) : cs[k].slug = s.slug /\ cs[k].postType = s.postType}
    IN  IF hits = {} THEN 0 ELSE CHOOSE k \in hits : \A m \in hits : k <= m

\* comparison && (desktop.diffPixels > 0 || mobile.diffPixels > 0)
hasAnyChanges(cs, s) ==
    IF FindComparison(cs, s) = 0 THEN FALSE ELSE HasChanges(cs[FindComparison(cs, s)])

\* the class of the sidebar entry of a before snapshot
changeClass(cs, s) ==
    IF FindComparison(cs, s) # 0
    THEN IF hasAnyChanges(cs, s) THEN "nav-changed" ELSE "nav-unchanged"
    ELSE ""

\* the change indicator of the card of a before snapshot, "" when there is none
changeIndicator(cs, s) ==
    IF FindComparison(cs, s) # 0
    THEN IF hasAnyChanges(cs, s) THEN "changed" ELSE "unchanged"
    ELSE ""

\* the class of the card of a before snapshot
cardClass(cs, s) == IF hasAnyChanges(cs, s) THEN "has-changes" ELSE "no-changes"

----------------------------------------------------------------------------
(* Claims about compareScreenshots, checked under SpecDiff *)

\* the two inputs of the compareScreenshots call as they are in storage, the
\* DiffResult it returned, and the diff image it wrote
StoredBefore == fs[DiffBeforePath]
StoredAfter  == fs[DiffAfterPath]
Returned     == cmp[1].result
Canvas       == fs[DiffPath(Homepage, "desktop")]

\* C7: beforeDimensions and afterDimensions of the DiffResult are the width
\* and height of the before and the after image as read from storage, also
\* when the two sizes differ and the images were padded.
C7_DimensionsAreThoseOfTheInputs ==
    pc = "compared" =>
        /\ Returned.beforeDimensions = Dimensions(StoredBefore)
        /\ Returned.afterDimensions = Dimensions(StoredAfter)

\* C8: the canvas is max(w1,w2) by max(h1,h2), totalPixels is the canvas
\* area, diffPercentage is 100 * diffPixels / totalPixels, and
\* dimensionsDiffer is true exactly when the widths or the heights differ.
C8_CanvasAndPercentage ==
    pc = "compared" =>
        /\ Canvas.width = Max(StoredBefore.width, StoredAfter.width)
        /\ Canvas.height = Max(StoredBefore.height, StoredAfter.height)
        /\ Dimensions(cmp[1].img1) = Dimensions(Canvas)
        /\ Dimensions(cmp[1].img2) = Dimensions(Canvas)
        /\ Returned.totalPixels = Canvas.width * Canvas.height
        /\ Returned.diffPercentage.den > 0
        /\ Returned.diffPercentage.num * Returned.totalPixels
             = 100 * Returned.diffPixels * Returned.diffPercentage.den
        /\ Returned.dimensionsDiffer
             <=> (StoredBefore.width # StoredAfter.width
                    \/ StoredBefore.height # StoredAfter.height)

\* both images are padded (in different directions) and pixels differ
C8_Witness ==
    /\ pc = "compared"
    /\ StoredBefore.width < StoredAfter.width
    /\ StoredBefore.height > StoredAfter.height
    /\ Returned.diffPixels > 0
    /\ Returned.totalPixels > StoredBefore.width * StoredBefore.height
    /\ Returned.totalPixels > StoredAfter.width * StoredAfter.height

\* pixel (x, y) of the padded image is the original pixel inside the original
\* size and opaque white outside
PaddedFrom(padded, original) ==
    \A x \in 0..(padded.width - 1) : \A y \in 0..(padded.height - 1) :
        PixelAt(padded, x, y) =
            IF x < original.width /\ y < original.height
            THEN PixelAt(original, x, y)
            ELSE <<255, 255, 255, 255>>

\* larger is smaller extended by white rows and/or columns
WhiteExtension(smaller, larger) ==
    /\ larger.width >= smaller.width
    /\ larger.height >= smaller.height
    /\ Dimensions(larger) # Dimensions(smaller)
    /\ PaddedFrom(larger, smaller)

\* C9: padding keeps the original at the top-left and fills the rest with
\* opaque white, so an image compared with a copy of it extended by white
\* rows or columns gives diffPixels = 0 with dimensionsDiffer = true.
C9_PaddingIsWhiteTopLeft ==
    pc = "compared" =>
        /\ PaddedFrom(cmp[1].img1, StoredBefore)
        /\ PaddedFrom(cmp[1].img2, StoredAfter)
        /\ WhiteExtension(StoredBefore, StoredAfter)
             => Returned.diffPixels = 0 /\ Returned.dimensionsDiffer

\* a before image of several pixels holding black, compared with a copy
\* extended by white columns
C9_Witness ==
    /\ pc = "compared"
    /\ WhiteExtension(StoredBefore, StoredAfter)
    /\ StoredBefore.width * StoredBefore.height > 1
    /\ StoredAfter.width > StoredBefore.width
    /\ {White, Black} \subseteq Range(StoredBefore.data)
    /\ cmp[1].padded1
    /\ Returned.diffPixels = 0

\* C10: two identical images give diffPixels = 0 and dimensionsDiffer = false,
\* and neither image is padded.
C10_IdenticalImages ==
    (pc = "compared" /\ StoredBefore = StoredAfter) =>
        /\ Returned.diffPixels = 0
        /\ ~Returned.dimensionsDiffer
        /\ ~cmp[1].padded1
        /\ ~cmp[1].padded2
        /\ cmp[1].img1 = StoredBefore
        /\ cmp[1].img2 = StoredAfter

\* identical non-square images holding both colours
C10_Witness ==
    /\ pc = "compared"
    /\ StoredBefore = StoredAfter
    /\ StoredBefore.width # StoredBefore.height
    /\ {White, Black} \subseteq Range(StoredBefore.data)
    /\ Returned.diffPixels = 0

----------------------------------------------------------------------------
(* Claims about generateDiffComparisons, checked under SpecPair *)

Identities(shots) == {Identity(shots[k]) : k \in 1..Len(shots)}

UniqueIdentities(shots) ==
    \A j, k \in 1..Len(shots) : Identity(shots[j]) = Identity(shots[k]) => j = k

Readable(path) == Exists(fs, path) /\ IsPng(fs[path])

AllArtifactsReadable ==
    /\ \A k \in 1..Len(beforeScreenshots) : \A vp \in Viewports :
          Readable(SnapshotPath(beforeScreenshots[k], vp))
    /\ \A k \in 1..Len(afterScreenshots) : \A vp \in Viewports :
          Readable(SnapshotPath(afterScreenshots[k], vp))

\* C1: with identities unique within each set and every artifact readable,
\* the records are exactly those of the identities present in both sets,
\* whatever the urls; a before-only identity is skipped without a record and
\* an after-only identity is ignored.
C1_PairingByIdentity ==
    (pc = "diffed" /\ UniqueIdentities(beforeScreenshots)
        /\ UniqueIdentities(afterScreenshots) /\ AllArtifactsReadable) =>
        /\ Identities(comparisons)
             = Identities(beforeScreenshots) \cap Identities(afterScreenshots)
        /\ Len(comparisons) = Cardinality(Identities(comparisons))
        /\ \A k \in 1..Len(beforeScreenshots) :
              k \in log.skipped
                <=> Identity(beforeScreenshots[k]) \notin Identities(afterScreenshots)

\* before {A, B}, after {A, D}: A is paired although its url changed
C1_Witness ==
    /\ pc = "diffed"
    /\ UniqueIdentities(beforeScreenshots)
    /\ UniqueIdentities(afterScreenshots)
    /\ AllArtifactsReadable
    /\ Len(comparisons) = 1
    /\ Identities(beforeScreenshots) \ Identities(afterScreenshots) # {}
    /\ Identities(afterScreenshots) \ Identities(beforeScreenshots) # {}
    /\ \E k \in 1..Len(afterScreenshots) :
          /\ Identity(afterScreenshots[k]) = Identity(comparisons[1])
          /\ afterScreenshots[k].url # comparisons[1].url

\* the before snapshot at position k has an after snapshot of the same
\* identity, and the four artifacts of the pair are readable
Comparable(k) ==
    \E a \in 1..Len(afterScreenshots) :
        /\ Identity(afterScreenshots[a]) = Identity(beforeScreenshots[k])
        /\ \A vp \in Viewports :
              /\ Readable(SnapshotPath(beforeScreenshots[k], vp))
              /\ Readable(SnapshotPath(afterScreenshots[a], vp))

\* C4: a comparison that raises does not end the batch: the function returns,
\* the pair has no record, and every later pair of the before-set is still
\* compared.
C4_ErrorIsConfinedToItsPair ==
    /\ pc \in {"diff", "diffed"}
    /\ pc = "diffed" =>
          \A i \in log.errored :
              /\ i \notin Range(log.recorded)
              /\ \A j \in (i + 1)..Len(beforeScreenshots) :
                    /\ j \in log.skipped \cup log.errored \cup Range(log.recorded)
                    /\ Comparable(j) =>
                          /\ j \in Range(log.recorded)
                          /\ {<<j, "desktop">>, <<j, "mobile">>} \subseteq log.compared

\* the first pair raised and the second one was compared and recorded
C4_Witness ==
    /\ pc = "diffed"
    /\ 1 \in log.errored
    /\ 2 \in Range(log.recorded)
    /\ Len(comparisons) = 1

\* C5: a before snapshot has a record if and only if an after snapshot of the
\* same identity exists and both the desktop and the mobile comparison
\* succeeded; at most one record per before snapshot, in before-set order.
C5_RecordIffBothViewportsCompared ==
    pc = "diffed" =>
        /\ Len(comparisons) = Len(log.recorded)
        /\ \A k \in 1..Len(comparisons) :
              /\ log.recorded[k] \in 1..Len(beforeScreenshots)
              /\ Identity(comparisons[k]) = Identity(beforeScreenshots[log.recorded[k]])
              /\ k > 1 => log.recorded[k - 1] < log.recorded[k]
        /\ \A i \in 1..Len(beforeScreenshots) :
              i \in Range(log.recorded) <=> Comparable(i)

\* one pair recorded, another dropped because only its mobile comparison raised
C5_Witness ==
    /\ pc = "diffed"
    /\ Len(comparisons) = 1
    /\ \E i \in log.errored : <<i, "desktop">> \in log.compared

----------------------------------------------------------------------------
(* Claims about the capture phases and the run, checked under Spec *)

\* C2: screenshotUrl always returns a Snapshot record and never raises to its
\* caller, whichever step fails (browser not initialised, context or page
\* creation, storage-directory creation, navigation, scrolling, capture).
C2_ScreenshotUrlNeverRaises == "screenshotUrl" \notin log.raised

SameIdentitySequence(shots, descriptors) ==
    /\ Len(shots) = Len(descriptors)
    /\ \A k \in 1..Len(shots) : Identity(shots[k]) = Identity(descriptors[k])

BeforePhaseReturned ==
    \/ pc \in {"confirm", "exited", "diff", "diffed", "done"}
    \/ pc \in {"screenshotAll", "failed"} /\ phase = "after"

AfterPhaseReturned == pc \in {"diff", "diffed", "done"}

CaptureFailed(ph, k) == \E vp \in Viewports : <<ph, k, vp>> \in log.failed

\* C3: whatever captures fail on navigation, screenshotAll returns exactly
\* one result per descriptor, in list order and with the descriptor's
\* identity, so the before-set and the after-set have the identity sequence
\* of the descriptor list.
C3_OneResultPerDescriptor ==
    /\ pc = "screenshotAll" => SameIdentitySequence(results, SubSeq(urls, 1, idx))
    /\ BeforePhaseReturned => SameIdentitySequence(beforeScreenshots, urls)
    /\ AfterPhaseReturned =>
          /\ SameIdentitySequence(afterScreenshots, urls)
          /\ Len(afterScreenshots) = Len(beforeScreenshots)
          /\ \A k \in 1..Len(afterScreenshots) :
                Identity(afterScreenshots[k]) = Identity(beforeScreenshots[k])

\* both phases returned for three descriptors although a capture failed in
\* each phase, for a descriptor that is not the last of the list
C3_Witness ==
    /\ AfterPhaseReturned
    /\ Len(urls) = 3
    /\ CaptureFailed("before", 1)
    /\ CaptureFailed("after", 2)
    /\ Len(afterScreenshots) = 3

\* C6: if the capture of a descriptor failed for a viewport in the before or
\* the after phase, no ComparisonRecord is produced for the descriptor and the
\* failed viewport is never diffed as if it had an artifact.
C6_FailedCaptureIsHardFailure ==
    (pc = "diffed" /\ UniqueIdentities(urls)) =>
        \A k \in 1..Len(urls) : \A vp \in Viewports :
            (\E ph \in Phases : <<ph, k, vp>> \in log.failed) =>
                /\ k \notin Range(log.recorded)
                /\ <<k, vp>> \notin log.compared

----------------------------------------------------------------------------
(* Claims about handleCookieBanner, checked under SpecBanner *)

\* C11: in one run of handleCookieBanner at most one click succeeds, and once
\* a click has succeeded no later strategy and no later text is tried: the
\* last strategy tried is the one that clicked.
C11_StopsAtFirstSuccessfulClick ==
    /\ Len(banner.clicked) <= 1
    /\ banner.clicked # <<>> => banner.tried[Len(banner.tried)] = banner.clicked[1]

StepsRun(k, vp) == {s \in Range(CaptureProcedure) : <<k, vp, s>> \in log.ran}

\* C13: handleCookieBanner never raises to takeScreenshot, whatever wheel
\* scroll, locator query or click fails and whether or not a banner was
\* dismissed: once it was entered, it is either still running or the
\* lazy-content scroll was invoked after it, and a capture in which no other
\* step rejected wrote its raster.
C13_BannerFailureIsSoft ==
    \A k \in 1..Len(urls) : \A vp \in Viewports :
        /\ <<k, vp, "handleCookieBanner">> \notin log.rejected
        /\ "handleCookieBanner" \in StepsRun(k, vp) =>
              \/ k = idx + 1 /\ cap = vp /\ step = "handleCookieBanner"
              \/ k = idx + 1 /\ cap = vp /\ step = "scrollToLoadAllContent"
              \/ "scrollToLoadAllContent" \in StepsRun(k, vp)
        /\ (<<k, vp>> \in log.finished
                /\ ~\E s \in Range(CaptureProcedure) : <<k, vp, s>> \in log.rejected)
              => <<phase, k, vp>> \in log.captured

\* the wheel scroll, a visibility query and a click failed, nothing was
\* clicked, and handleCookieBanner is at its return to takeScreenshot
C13_Witness ==
    /\ step = "handleCookieBanner"
    /\ banner.at = "return"
    /\ banner.clicked = <<>>
    /\ {"wheel", "query", "click"} \subseteq banner.ignored

----------------------------------------------------------------------------
(* Claims about takeScreenshot and screenshotAll, checked under SpecCapture *)

StepsRejected(k, vp) == {s \in Range(CaptureProcedure) : <<k, vp, s>> \in log.rejected}

BestEffortSteps == {"scrollToLoadAllContent", "waitForLoadState", "waitForTimeout"}

\* C14: a failure of the lazy-content scroll, of the second network-idle wait
\* or of the settle delay does not prevent the raster: a capture that was
\* left after only such steps rejected has written its raster.
C14_StepsAfterNavigationAreBestEffort ==
    \A k \in 1..Len(urls) : \A vp \in Viewports :
        (<<k, vp>> \in log.finished /\ StepsRejected(k, vp) \subseteq BestEffortSteps)
            => <<phase, k, vp>> \in log.captured

\* C15: when navigation rejects for a viewport, no dismissal, scroll, wait or
\* raster step is invoked for it and the capture writes no raster; the
\* failure stays with its descriptor: when the phase returns, the capture of
\* every descriptor of the list was started.
C15_NavigationFailureIsHard ==
    /\ \A k \in 1..Len(urls) : \A vp \in Viewports :
          <<k, vp, "goto">> \in log.rejected =>
              /\ StepsRun(k, vp) = {"setViewportSize", "goto"}
              /\ <<k, vp>> \in log.finished
              /\ <<phase, k, vp>> \notin log.captured
              /\ (pc = "screenshotAll" /\ idx + 1 > k /\ idx < Len(urls) /\ cap = "close")
                    => <<idx + 1, CaptureOrder[1]>> \in log.started
    /\ pc = "confirm" =>
          \A j \in 1..Len(urls) : <<j, CaptureOrder[1]>> \in log.started

\* navigation failed for the first descriptor and both rasters of the second
\* one were written
C15_Witness ==
    /\ pc = "confirm"
    /\ <<1, "desktop", "goto">> \in log.rejected
    /\ {<<"before", 2, "desktop">>, <<"before", 2, "mobile">>} \subseteq log.captured

\* C16: captures are strictly sequential: at most one takeScreenshot call is
\* in progress; the mobile capture of a descriptor starts only after its
\* desktop capture was left; the capture of a descriptor starts only after
\* screenshotUrl returned for every earlier descriptor and each of their
\* captures was left.
C16_CapturesAreSequential ==
    /\ Cardinality(log.started \ log.finished) <= 1
    /\ \A c \in log.started :
          /\ c[2] = "mobile" => <<c[1], "desktop">> \in log.finished
          /\ c \notin log.finished =>
                /\ c[1] = idx + 1
                /\ Len(results) = idx
          /\ \A j \in 1..(c[1] - 1) :
                /\ j <= Len(results)
                /\ \A vp \in Viewports :
                      <<j, vp>> \in log.started => <<j, vp>> \in log.finished

\* the mobile capture of the second descriptor is writing its raster, after
\* three captures that were left
C16_Witness ==
    /\ step = "screenshot"
    /\ idx = 1
    /\ cap = "mobile"
    /\ log.finished = {<<1, "desktop">>, <<1, "mobile">>, <<2, "desktop">>}

----------------------------------------------------------------------------
(* Claims about the contexts, the run order and the counts, checked under Spec *)

\* C17: a browsing context is open only while the screenshotUrl call that
\* created it is running: at most one is open, and none is open between two
\* descriptors, after a phase returned or after a step of screenshotUrl failed.
C17_ContextTornDownOnEveryPath ==
    /\ openContexts <= 1
    /\ openContexts = 1 => (pc = "screenshotAll" /\ cap # "idle")

\* every capture of phase ph was completed, with or without a raster
PhaseCompleted(ph) ==
    \A k \in 1..Len(urls) :
        <<ph, k, CaptureOrder[1]>> \in log.captured \cup log.failed

AfterCaptureStarted ==
    \/ \E c \in log.captured \cup log.failed : c[1] = "after"
    \/ phase = "after"

\* C18: the gate is asked only after every before-capture completed and the
\* interim report was saved; an after-capture starts only after the answer
\* yes; the diff starts only after every after-capture completed; after the
\* answer no the run ends with an empty after-set, no comparison set and no
\* end timestamp.
C18_RunOrdering ==
    /\ (pc = "confirm" \/ log.gate # "unasked") =>
          /\ PhaseCompleted("before")
          /\ Len(beforeScreenshots) = Len(urls)
          /\ Len(log.reports) >= 1
    /\ AfterCaptureStarted => log.gate = "yes"
    /\ (pc \in {"diff", "diffed", "done"} \/ comparisons # <<>>
            \/ log.compared # {} \/ log.errored # {} \/ log.skipped # {}) =>
          /\ PhaseCompleted("after")
          /\ Len(afterScreenshots) = Len(urls)
          /\ cap = "idle"
    /\ log.gate = "no" =>
          /\ pc = "exited"
          /\ afterScreenshots = <<>>
          /\ configComparisons = <<>>
          /\ comparisons = <<>>
          /\ ~endTime
          /\ ~browser

\* the gate was answered no after the before-captures of three descriptors
C18_Witness ==
    /\ pc = "exited"
    /\ log.gate = "no"
    /\ Len(beforeScreenshots) = 3
    /\ log.captured # {}
    /\ log.reports = <<[changed |-> 0, total |-> 0]>>

\* C19: the end timestamp is set only once the diff computation has
\* completed: in no state of a run that has not failed is config.endTime set
\* while config.comparisons is still undefined.
C19_FinalizedOnlyAfterDiff ==
    (endTime /\ pc # "failed") => configComparisons # <<>>

\* the after raster of every descriptor equals its before raster, and every
\* capture wrote its raster
AllCapturesIdentical ==
    \A k \in 1..Len(urls) : \A vp \in Viewports :
        /\ <<"before", k, vp>> \in log.captured
        /\ <<"after", k, vp>> \in log.captured
        /\ <<"before", k, vp>> \notin log.failed
        /\ <<"after", k, vp>> \notin log.failed
        /\ fs[ScreenshotPath("after", urls[k], vp)]
             = fs[ScreenshotPath("before", urls[k], vp)]

----------------------------------------------------------------------------
(* Claims about the report, checked under SpecPair *)

\* the before snapshot has a record whose two viewports have no differing pixel
HasUnchangedRecord(s) ==
    \E k \in 1..Len(comparisons) :
        /\ Identity(comparisons[k]) = Identity(s)
        /\ comparisons[k].diff.desktop.diffPixels = 0
        /\ comparisons[k].diff.mobile.diffPixels = 0

\* C21: a page whose comparison errored or that has no after snapshot has no
\* ComparisonRecord, and every page the report classifies as unchanged (in
\* the sidebar, by its change indicator or by the class of its card) has a
\* record with diffPixels = 0 for both viewports.
C21_ErroredIsNotUnchanged ==
    pc = "diffed" =>
        \A k \in 1..Len(beforeScreenshots) :
            LET s == beforeScreenshots[k] IN
            /\ k \in log.errored \cup log.skipped => FindComparison(comparisons, s) = 0
            /\ (\/ changeClass(comparisons, s) = "nav-unchanged"
                \/ changeIndicator(comparisons, s) = "unchanged"
                \/ cardClass(comparisons, s) = "no-changes") => HasUnchangedRecord(s)

----------------------------------------------------------------------------
(* Claims about discovery, checked under SpecDiscover *)

\* C22: no failure of the REST API aborts the run: whatever the types
\* request and the post listings answer, main reaches the capture phase with
\* a descriptor list that holds the homepage descriptor.
C22_OnlyAnEmptyListAborts ==
    /\ pc # "failed"
    /\ log.raised = {}

\* C23: in every descriptor list buildUrlList returns no two descriptors have
\* the same (postType, slug), and exactly one descriptor has the homepage
\* identity, the first of the list.
C23_IdentitiesAreUnique ==
    pc = "init" =>
        /\ UniqueIdentities(urls)
        /\ {k \in 1..Len(urls) : Identity(urls[k]) = Identity(Homepage)} = {1}

----------------------------------------------------------------------------
(* Claims about the order of the dismissal strategies, checked under SpecBanner *)

\* the strategies are tried text by text in list order and, for each text,
\* in the order role match, exact text, loose text
TriedInOrder ==
    \A i \in 1..Len(banner.tried) :
        banner.tried[i] = <<((i - 1) \div 3) + 1, ((i - 1) % 3) + 1>>

\* C24: texts are tried in list order and the three strategies in their order
\* for each text, and a text is tried only after all three strategies failed
\* (no visible match or failed click) for the text before it.
C24_StrategyOrder ==
    /\ TriedInOrder
    /\ \A i \in 1..Len(banner.tried) : \A c \in Range(banner.clicked) :
          c[1] >= banner.tried[i][1]

----------------------------------------------------------------------------
(* Claims about the lazy-content scroll, checked under SpecScroll *)

\* C25: the stepped scroll goes on until the scroll position has reached the
\* height the document has at that moment, so the stepped positions cover
\* the height lazy loading added while scrolling.
C25_ScrollCoversGrownHeight ==
    pc = "scrolled" => scroll.currentPosition >= PositionScale * scroll.height

----------------------------------------------------------------------------
(* Claims about sanitizeFilename, checked under SpecSanitize *)

Sanitized == filename.result[1]

\* C26: the result of sanitizeFilename holds only characters of [a-z0-9-],
\* has no two adjacent hyphens and is at most 50 characters long.
C26_SanitizedShape ==
    pc = "sanitized" =>
        /\ \A k \in 1..Len(Sanitized) : IsFilenameChar(Sanitized[k])
        /\ \A k \in 1..(Len(Sanitized) - 1) :
              ~(Sanitized[k] = "-" /\ Sanitized[k + 1] = "-")
        /\ Len(Sanitized) <= 50

\* a name longer than the limit with an upper-case letter, an underscore next
\* to a hyphen and a character outside the class, cut to 50 characters
C26_Witness ==
    /\ pc = "sanitized"
    /\ Len(filename.name) > 50
    /\ \E k \in 1..(Len(filename.name) - 1) :
          filename.name[k] = "_" /\ filename.name[k + 1] = "-"
    /\ "B" \in Range(filename.name)
    /\ Len(Sanitized) = 50
    /\ "b" \in Range(Sanitized)

\* C27: the result of sanitizeFilename neither starts nor ends with a hyphen,
\* and sanitizing it again returns it unchanged.
C27_SanitizeIsIdempotent ==
    pc = "sanitized" =>
        /\ Sanitized # <<>> => (Sanitized[1] # "-" /\ Sanitized[Len(Sanitized)] # "-")
        /\ sanitizeFilename(Sanitized) = Sanitized

----------------------------------------------------------------------------
(* Claims about the diff artifacts, checked under SpecPair *)

\* C28: two before snapshots of one session with different (postType, slug)
\* identities are never given the same diff file path, so no diff image of
\* one pair is overwritten by the diff image of another pair.
C28_DiffPathsDoNotCollide ==
    \A i, j \in Range(log.recorded) : \A vp \in Viewports :
        Identity(beforeScreenshots[i]) # Identity(beforeScreenshots[j])
            => DiffPath(beforeScreenshots[i], vp) # DiffPath(beforeScreenshots[j], vp)

\* C29: after diff computation the diff folder holds no diff image of a pair
\* that was excluded as errored (a path that a pair of the comparison set
\* wrote as well is left aside).
C29_ErroredPairHasNoDiffImage ==
    pc = "diffed" =>
        \A i \in log.errored : \A vp \in Viewports :
            (\A j \in Range(log.recorded) :
                DiffPath(beforeScreenshots[j], vp) # DiffPath(beforeScreenshots[i], vp))
            => ~Exists(fs, DiffPath(beforeScreenshots[i], vp))

----------------------------------------------------------------------------
(* A claim about the two captures of a descriptor, checked under SpecCapture *)

\* C30: the two viewports of one descriptor are captured independently: when
\* the desktop capture of a descriptor failed, its mobile capture has still
\* been attempted by the time screenshotUrl is done with the descriptor.
C30_MobileAttemptedAfterDesktopFailure ==
    \A k \in 1..idx :
        <<phase, k, "desktop">> \in log.failed => <<k, "mobile">> \in log.started

====
